---- MODULE Spec2Model ----
(***************************************************************************)
(* BytecodeParser of tornadoviz (src/src/parsers/bytecode_parser.py): one  *)
(* parse_log call on a newly constructed parser, as app.py makes it.       *)
(*                                                                         *)
(* The log text is a sequence of sections (what re.split yields), a        *)
(* section is its banner and its lines, and a line is the tokens the       *)
(* decoder's patterns look at.  parse_log is one pass over the sections in *)
(* order, so the sections and lines are drawn as the pass reaches them and *)
(* `log` holds the text read so far; at pc = "done" it is the whole text.  *)
(***************************************************************************)
EXTENDS Integers, Sequences, FiniteSets, TLC

\* ------------------------------------------------------------- bounds
MaxSections == 3      \* banner sections of a log of SpecGraphs
MaxLines == 3         \* lines of a log of SpecGraphs, over all its sections
MaxObjSections == 1   \* banner sections of a log of Spec
MaxObjLines == 3      \* lines of a log of Spec, over all its sections
MaxTwiceSections == 2 \* banner sections of a log of SpecTwice
MaxTwiceLines == 3    \* lines of a log of SpecTwice, over all its sections
MaxDecodeSections == 1 \* banner sections of a log of SpecDecode
MaxDecodeLines == 4   \* lines of a log of SpecDecode, over all its sections
MaxLifeSections == 2  \* banner sections of a log of SpecLife
MaxLifeLines == 3     \* lines of a log of SpecLife, over all its sections
MaxSummarySections == 2 \* banner sections of a log of SpecSummary
MaxSummaryLines == 3  \* lines of a log of SpecSummary, over all its sections
MaxComponents == 3    \* dotted components of a reference of SpecRefs

\* ------------------------------------------------------------- text
NoGraph == <<>>                       \* allocated_in_graph = ""
GraphName(n) == <<"TaskGraph", n>>    \* f"TaskGraph_{n}"

\* An object reference token: dotted path, '@', identity hash.
\* An object reference: the dotted path, what separates it from the hash
\* ("@", ":@" as in rmsnorm:@hash, "" when no hash follows) and the hash.
Ref(path, sep, hash) == [path |-> path, sep |-> sep, hash |-> hash]
RefA == Ref(<<"foo", "IntArray">>, "@", "aa11")
RefB == Ref(<<"foo", "Data">>, "@", "bb22")
Hashes == {"aa11", "bb22"}

TransferKinds ==
  {"TRANSFER_HOST_TO_DEVICE_ONCE", "TRANSFER_DEVICE_TO_HOST_ALWAYS"}

\* str.startswith("TRANSFER") over the operation kinds of the model
StartsWithTransfer(k) == k \in TransferKinds

\* A line of a section.
\*   bc      the stripped line starts with "bc:"
\*   kind    the first whitespace-delimited token after the marker ("" if none)
\*   tag     a bracketed "[0x..]" tag stands right before the first reference
\*   refs    the identifier.path@hash tokens of the line, in order
\*   clause  " on <device>, size=<size>, batchSize=<batch>" follows the reference
\*   hasStatus, status   "[Status:<status>]" follows the reference; the text
\*           is a sequence of words and single blanks
\*   task    "task <task> - <variant> on" occurs in the line ("" if not)
\*   event   <<n>> when "[event list=n]" occurs, << >> otherwise
BaseLine ==
  [bc |-> TRUE, kind |-> "", tag |-> FALSE, refs |-> <<>>, clause |-> FALSE,
   size |-> 0, batch |-> 0, hasStatus |-> FALSE, status |-> <<>>,
   task |-> "", event |-> <<>>]

AllocLine(r, sz) ==
  [BaseLine EXCEPT !.kind = "ALLOC", !.refs = <<r>>, !.clause = TRUE,
                   !.size = sz, !.batch = 4]
TransferLine(k, r, sz) ==
  [BaseLine EXCEPT !.kind = k, !.tag = TRUE, !.refs = <<r>>, !.clause = TRUE,
                   !.size = sz, !.batch = 4]
DeallocLine(r, st) ==
  [BaseLine EXCEPT !.kind = "DEALLOC", !.tag = TRUE, !.refs = <<r>>,
                   !.hasStatus = TRUE, !.status = st]
DeviceLine(k, r) == [BaseLine EXCEPT !.kind = k, !.tag = TRUE, !.refs = <<r>>]
LaunchLine(t) == [BaseLine EXCEPT !.kind = "LAUNCH", !.task = t]
OtherLine(k, rs) == [BaseLine EXCEPT !.kind = k, !.refs = rs]

\* ------------------------------------------------------------- models/
BytecodeOperation(k) ==
  [operation |-> k, objects |-> <<>>, size |-> 0, batch_size |-> 0,
   task_name |-> "", event_list |-> -1, status |-> ""]

MemoryObject(id, type) ==
  [object_id |-> id, object_type |-> type, size |-> 0,
   allocated_in_graph |-> NoGraph, current_status |-> "Unknown",
   allocation_op_index |-> -1, deallocation_op_index |-> -1,
   used_in_graphs |-> {}, transfer_history |-> <<>>]

EmptyDict == [k \in {} |-> <<>>]

TaskGraph(id, device, thread) ==
  [graph_id |-> id, device |-> device, thread |-> thread, operations |-> <<>>,
   dependencies |-> EmptyDict, objects_produced |-> {},
   objects_consumed |-> {}, tasks |-> <<>>]

\* ------------------------------------------------------------- decoding
RECURSIVE LStrip(_)
LStrip(s) == IF s # <<>> /\ Head(s) = " " THEN LStrip(Tail(s)) ELSE s

RECURSIVE RStrip(_)
RStrip(s) ==
  IF s # <<>> /\ s[Len(s)] = " " THEN RStrip(SubSeq(s, 1, Len(s) - 1)) ELSE s

\* str.strip()
Strip(s) == RStrip(LStrip(s))

RECURSIVE Join(_)
Join(s) == IF s = <<>> THEN "" ELSE Head(s) \o Join(Tail(s))

\* r"\[Status:\s+([\w\s]+)\]" : at least one blank after the colon and at
\* least one more character before the closing bracket
StatusMatch(line) ==
  line.hasStatus /\ Len(line.status) >= 2 /\ line.status[1] = " "

\* the status text taken without .strip()
StatusText_Raw(line) == Join(Tail(line.status))

\* obj_match.group(3).strip()
StatusText(line) == Join(Strip(Tail(line.status)))

ParseAlloc(line, op) ==
  IF line.refs # <<>> /\ line.clause
  THEN [op EXCEPT !.objects = <<line.refs[1]>>, !.size = line.size,
                  !.batch_size = line.batch]
  ELSE op

ParseTransfer(line, op) ==
  IF line.tag /\ line.refs # <<>> /\ line.clause
  THEN [op EXCEPT !.objects = <<line.refs[1]>>, !.size = line.size,
                  !.batch_size = line.batch,
                  !.event_list = IF line.event # <<>> THEN line.event[1] ELSE @]
  ELSE op

\* LAUNCH also taking the references the generic pattern finds
ParseLaunch_Refs(line, op) ==
  [op EXCEPT !.objects = line.refs,
             !.task_name = line.task,
             !.event_list = IF line.task # "" /\ line.event # <<>>
                               /\ line.event[1] >= 0
                            THEN line.event[1] ELSE @]

ParseLaunch(line, op) ==
  IF line.task # ""
  THEN [op EXCEPT !.task_name = line.task,
                  !.event_list = IF line.event # <<>> /\ line.event[1] >= 0
                                 THEN line.event[1] ELSE @]
  ELSE op

ParseDealloc(line, op) ==
  IF line.tag /\ line.refs # <<>> /\ StatusMatch(line)
  THEN [op EXCEPT !.objects = <<line.refs[1]>>, !.status = StatusText(line)]
  ELSE op

ParseDevice(line, op) ==
  IF line.tag /\ line.refs # <<>>
  THEN [op EXCEPT !.objects = <<line.refs[1]>>]
  ELSE op

ParseBarrier(line, op) ==
  IF line.event # <<>> /\ line.event[1] >= 0
  THEN [op EXCEPT !.event_list = line.event[1]]
  ELSE op

ParseFallback(line, op) == [op EXCEPT !.objects = line.refs]

\* _parse_operation: << >> for None, <<operation>> otherwise
ParseOperation(line) ==
  IF line.kind = "" THEN <<>>
  ELSE LET op == BytecodeOperation(line.kind) IN
    << CASE line.kind = "ALLOC" -> ParseAlloc(line, op)
         [] StartsWithTransfer(line.kind) -> ParseTransfer(line, op)
         [] line.kind = "LAUNCH" -> ParseLaunch(line, op)
         [] line.kind = "DEALLOC" -> ParseDealloc(line, op)
         [] line.kind \in {"ON_DEVICE_BUFFER", "ON_DEVICE"} -> ParseDevice(line, op)
         [] line.kind = "BARRIER" -> ParseBarrier(line, op)
         [] OTHER -> ParseFallback(line, op) >>

\* The text of a reference, a sequence of words and of the characters
\* '.', ':' and '@'.
RECURSIVE Dotted(_)
Dotted(path) ==
  IF Len(path) <= 1 THEN path
  ELSE <<Head(path), ".">> \o Dotted(Tail(path))

RefText(ref) ==
  Dotted(ref.path)
    \o (IF ref.sep = ":@" THEN <<":">> ELSE <<>>)
    \o (IF ref.sep = "" THEN <<>> ELSE <<"@", ref.hash>>)

IsWord(c) == c \notin {".", ":", "@"}
Contains(text, c) == \E n \in DOMAIN text : text[n] = c

\* str.split(c): the parts of the text between the occurrences of c
RECURSIVE Split(_, _)
Split(text, c) ==
  IF ~Contains(text, c) THEN <<text>>
  ELSE LET n == CHOOSE n \in DOMAIN text :
                  text[n] = c /\ \A m \in 1..(n - 1) : text[m] # c
       IN <<SubSeq(text, 1, n - 1)>> \o Split(SubSeq(text, n + 1, Len(text)), c)

\* re.search(r'@(\w+)', obj_ref): the word after the first '@' that a word
\* follows ("" for None)
ExtractHashText(text) ==
  LET at == {n \in 1..(Len(text) - 1) : text[n] = "@" /\ IsWord(text[n + 1])}
  IN IF at = {} THEN ""
     ELSE text[(CHOOSE n \in at : \A m \in at : n <= m) + 1]

\* _extract_hash
ExtractHash(ref) == ExtractHashText(RefText(ref))

EndsWithArray(c) == c \in {"IntArray", "FloatArray", "ByteArray"}
StartsWithVector(c) == c \in {"VectorFloat", "VectorInt"}
StartsWithMatrix(c) == c \in {"Matrix2DFloat"}
StartsWithTensor(c) == c \in {"TensorFP32"}
SpecialTypes == {"KernelContext", "TornadoCollectionInterface", "TornadoMatrixInterface"}

Recognized(c) ==
  \/ EndsWithArray(c) \/ StartsWithVector(c) \/ StartsWithMatrix(c)
  \/ StartsWithTensor(c) \/ c \in SpecialTypes

\* the first recognized component met from the left
RECURSIVE ScanForward(_, _)
ScanForward(components, i) ==
  IF i = 0 THEN components[Len(components)]
  ELSE IF Recognized(components[Len(components) + 1 - i])
       THEN components[Len(components) + 1 - i]
       ELSE ScanForward(components, i - 1)

\* "for component in reversed(components)" from position i down, then
\* components[-1]
RECURSIVE ScanReversed(_, _)
ScanReversed(components, i) ==
  IF i = 0 THEN components[Len(components)]
  ELSE IF Recognized(components[i]) THEN components[i]
       ELSE ScanReversed(components, i - 1)

\* _extract_type on the text of a reference
ExtractTypeText(text) ==
  IF Contains(text, ":") THEN Join(Split(text, ":")[1])
  ELSE
    LET type_part == IF Contains(text, "@") THEN Split(text, "@")[1] ELSE text
        parts == Split(type_part, ".")
        components == [n \in DOMAIN parts |-> Join(parts[n])]
    IN ScanReversed(components, Len(components))

\* _extract_type
ExtractType(ref) == ExtractTypeText(RefText(ref))

\* ------------------------------------------------------------- _process_operation
\* The branches of "Handle different operations": each takes the operation,
\* the graph being built, the MemoryObject of the hash, the hash and the
\* operation's index, and yields the graph and the MemoryObject afterwards.
\* ALLOC recording len(task_graph.operations) after the append
HandleAlloc_After(op, tg, mo, h, op_index) ==
  [tg |-> [tg EXCEPT !.objects_produced = @ \cup {h}],
   mo |-> [mo EXCEPT !.allocated_in_graph = tg.graph_id,
                     !.allocation_op_index = op_index + 1,
                     !.current_status = "Allocated",
                     !.size = IF op.size > 0 THEN op.size ELSE @]]

\* ALLOC as a transition taken from 'Unknown' only
HandleAlloc_FromUnknown(op, tg, mo, h, op_index) ==
  [tg |-> [tg EXCEPT !.objects_produced = @ \cup {h}],
   mo |-> [mo EXCEPT !.allocated_in_graph = tg.graph_id,
                     !.allocation_op_index = op_index,
                     !.current_status = IF @ = "Unknown" THEN "Allocated" ELSE @,
                     !.size = IF op.size > 0 THEN op.size ELSE @]]

\* ALLOC taking over the size of the operation also when it is 0
HandleAlloc_AnySize(op, tg, mo, h, op_index) ==
  [tg |-> [tg EXCEPT !.objects_produced = @ \cup {h}],
   mo |-> [mo EXCEPT !.allocated_in_graph = tg.graph_id,
                     !.allocation_op_index = op_index,
                     !.current_status = "Allocated",
                     !.size = op.size]]

HandleAlloc(op, tg, mo, h, op_index) ==
  [tg |-> [tg EXCEPT !.objects_produced = @ \cup {h}],
   mo |-> [mo EXCEPT !.allocated_in_graph = tg.graph_id,
                     !.allocation_op_index = op_index,
                     !.current_status = "Allocated",
                     !.size = IF op.size > 0 THEN op.size ELSE @]]

\* TRANSFER recording the index after its own
HandleTransfer_NextIndex(op, tg, mo, h, op_index) ==
  [tg |-> [tg EXCEPT !.objects_produced = @ \cup {h}],
   mo |-> [mo EXCEPT !.transfer_history =
                        Append(@, <<op.operation, tg.graph_id, op_index + 1>>),
                     !.current_status = "Transferred",
                     !.size = IF op.size > 0 THEN op.size ELSE @]]

\* TRANSFER inserting its entry at the front of the history
HandleTransfer_Front(op, tg, mo, h, op_index) ==
  [tg |-> [tg EXCEPT !.objects_produced = @ \cup {h}],
   mo |-> [mo EXCEPT !.transfer_history =
                        <<(<<op.operation, tg.graph_id, op_index>>)>> \o @,
                     !.current_status = "Transferred",
                     !.size = IF op.size > 0 THEN op.size ELSE @]]

HandleTransfer(op, tg, mo, h, op_index) ==
  [tg |-> [tg EXCEPT !.objects_produced = @ \cup {h}],
   mo |-> [mo EXCEPT !.transfer_history =
                        Append(@, <<op.operation, tg.graph_id, op_index>>),
                     !.current_status = "Transferred",
                     !.size = IF op.size > 0 THEN op.size ELSE @]]

HandleDealloc(op, tg, mo, h, op_index) ==
  [tg |-> tg,
   mo |-> [mo EXCEPT !.deallocation_op_index = op_index,
                     !.current_status =
                        IF op.status # "" THEN op.status ELSE "Freed"]]

\* ON_DEVICE_BUFFER marking the object as produced as well
HandleDeviceBuffer_Produced(op, tg, mo, h, op_index) ==
  [tg |-> [tg EXCEPT !.objects_consumed = @ \cup {h},
                     !.objects_produced = @ \cup {h}],
   mo |-> [mo EXCEPT !.current_status = "On Device"]]

HandleDeviceBuffer(op, tg, mo, h, op_index) ==
  [tg |-> [tg EXCEPT !.objects_consumed = @ \cup {h}],
   mo |-> [mo EXCEPT !.current_status = "On Device"]]

\* ON_DEVICE and the other kinds treated like ON_DEVICE_BUFFER
HandleOther_OnDevice(op, tg, mo, h, op_index) ==
  [tg |-> [tg EXCEPT !.objects_consumed = @ \cup {h}],
   mo |-> [mo EXCEPT !.current_status = "On Device"]]

HandleOther(op, tg, mo, h, op_index) ==
  [tg |-> [tg EXCEPT !.objects_consumed = @ \cup {h}], mo |-> mo]

\* the pass recording the graph in used_in_graphs only when it creates the
\* MemoryObject
ProcessRef_FirstOnly(op, st, ref, op_index) ==
  LET h == ExtractHash(ref) IN
  IF h = "" THEN st
  ELSE
    LET mem1 == IF h \in DOMAIN st.mem THEN st.mem
                ELSE [k \in DOMAIN st.mem \cup {h} |->
                        IF k = h
                        THEN [MemoryObject(h, ExtractType(ref))
                                EXCEPT !.used_in_graphs = {st.tg.graph_id}]
                        ELSE st.mem[k]]
        mo1 == mem1[h]
        r == CASE op.operation = "ALLOC" ->
                    HandleAlloc(op, st.tg, mo1, h, op_index)
               [] StartsWithTransfer(op.operation) ->
                    HandleTransfer(op, st.tg, mo1, h, op_index)
               [] op.operation = "DEALLOC" ->
                    HandleDealloc(op, st.tg, mo1, h, op_index)
               [] op.operation = "ON_DEVICE_BUFFER" ->
                    HandleDeviceBuffer(op, st.tg, mo1, h, op_index)
               [] OTHER -> HandleOther(op, st.tg, mo1, h, op_index)
    IN [tg |-> r.tg, mem |-> [mem1 EXCEPT ![h] = r.mo]]

\* the pass that does not record the graph in used_in_graphs
ProcessRef_NoUse(op, st, ref, op_index) ==
  LET h == ExtractHash(ref) IN
  IF h = "" THEN st
  ELSE
    LET mem1 == IF h \in DOMAIN st.mem THEN st.mem
                ELSE [k \in DOMAIN st.mem \cup {h} |->
                        IF k = h THEN MemoryObject(h, ExtractType(ref))
                        ELSE st.mem[k]]
        mo1 == mem1[h]
        r == CASE op.operation = "ALLOC" ->
                    HandleAlloc(op, st.tg, mo1, h, op_index)
               [] StartsWithTransfer(op.operation) ->
                    HandleTransfer(op, st.tg, mo1, h, op_index)
               [] op.operation = "DEALLOC" ->
                    HandleDealloc(op, st.tg, mo1, h, op_index)
               [] op.operation = "ON_DEVICE_BUFFER" ->
                    HandleDeviceBuffer(op, st.tg, mo1, h, op_index)
               [] OTHER -> HandleOther(op, st.tg, mo1, h, op_index)
    IN [tg |-> r.tg, mem |-> [mem1 EXCEPT ![h] = r.mo]]

\* the pass decoding the type again at every reference
ProcessRef_Retype(op, st, ref, op_index) ==
  LET h == ExtractHash(ref) IN
  IF h = "" THEN st
  ELSE
    LET mem1 == [k \in DOMAIN st.mem \cup {h} |->
                   IF k # h THEN st.mem[k]
                   ELSE IF h \in DOMAIN st.mem
                        THEN [st.mem[h] EXCEPT !.object_type = ExtractType(ref)]
                        ELSE MemoryObject(h, ExtractType(ref))]
        mo1 == [mem1[h] EXCEPT !.used_in_graphs = @ \cup {st.tg.graph_id}]
        r == CASE op.operation = "ALLOC" ->
                    HandleAlloc(op, st.tg, mo1, h, op_index)
               [] StartsWithTransfer(op.operation) ->
                    HandleTransfer(op, st.tg, mo1, h, op_index)
               [] op.operation = "DEALLOC" ->
                    HandleDealloc(op, st.tg, mo1, h, op_index)
               [] op.operation = "ON_DEVICE_BUFFER" ->
                    HandleDeviceBuffer(op, st.tg, mo1, h, op_index)
               [] OTHER -> HandleOther(op, st.tg, mo1, h, op_index)
    IN [tg |-> r.tg, mem |-> [mem1 EXCEPT ![h] = r.mo]]

\* One pass of the loop "for obj_ref in operation.objects" over st = [tg, mem].
ProcessRef(op, st, ref, op_index) ==
  LET h == ExtractHash(ref) IN
  IF h = "" THEN st
  ELSE
    LET mem1 == IF h \in DOMAIN st.mem THEN st.mem
                ELSE [k \in DOMAIN st.mem \cup {h} |->
                        IF k = h THEN MemoryObject(h, ExtractType(ref))
                        ELSE st.mem[k]]
        mo1 == [mem1[h] EXCEPT !.used_in_graphs = @ \cup {st.tg.graph_id}]
        r == CASE op.operation = "ALLOC" ->
                    HandleAlloc(op, st.tg, mo1, h, op_index)
               [] StartsWithTransfer(op.operation) ->
                    HandleTransfer(op, st.tg, mo1, h, op_index)
               [] op.operation = "DEALLOC" ->
                    HandleDealloc(op, st.tg, mo1, h, op_index)
               [] op.operation = "ON_DEVICE_BUFFER" ->
                    HandleDeviceBuffer(op, st.tg, mo1, h, op_index)
               [] OTHER -> HandleOther(op, st.tg, mo1, h, op_index)
    IN [tg |-> r.tg, mem |-> [mem1 EXCEPT ![h] = r.mo]]

RECURSIVE ProcessRefs(_, _, _, _)
ProcessRefs(op, st, refs, op_index) ==
  IF refs = <<>> THEN st
  ELSE ProcessRefs(op, ProcessRef(op, st, Head(refs), op_index), Tail(refs),
                   op_index)

\* _process_operation(operation, task_graph) with self.memory_objects = mem
\* tasks kept as a set in insertion order: a name is appended once
ProcessOperation_TaskSet(op, tg, mem) ==
  LET op_index == Len(tg.operations)
      tg1 == [tg EXCEPT !.operations = Append(@, op),
                        !.tasks = IF op.task_name # ""
                                     /\ \A n \in DOMAIN @ : @[n] # op.task_name
                                  THEN Append(@, op.task_name) ELSE @]
  IN ProcessRefs(op, [tg |-> tg1, mem |-> mem], op.objects, op_index)

ProcessOperation(op, tg, mem) ==
  LET op_index == Len(tg.operations)
      tg1 == [tg EXCEPT !.operations = Append(@, op),
                        !.tasks = IF op.task_name # ""
                                  THEN Append(@, op.task_name) ELSE @]
  IN ProcessRefs(op, [tg |-> tg1, mem |-> mem], op.objects, op_index)

\* ------------------------------------------------------------- _build_dependencies
\* the body of the innermost loop: the edge of `deps` to producer pid gets h
\* the hash appended without looking whether the list holds it
AddDependency_Append(deps, pid, h) ==
  LET d1 == IF pid \in DOMAIN deps THEN deps
            ELSE [k \in DOMAIN deps \cup {pid} |->
                    IF k = pid THEN <<>> ELSE deps[k]]
  IN [d1 EXCEPT ![pid] = Append(@, h)]

AddDependency(deps, pid, h) ==
  LET d1 == IF pid \in DOMAIN deps THEN deps
            ELSE [k \in DOMAIN deps \cup {pid} |->
                    IF k = pid THEN <<>> ELSE deps[k]]
  IN IF \E n \in 1..Len(d1[pid]) : d1[pid][n] = h THEN d1
     ELSE [d1 EXCEPT ![pid] = Append(@, h)]

\* the scan with "break" after the first producer found
RECURSIVE ScanProducers_First(_, _, _, _, _)
ScanProducers_First(gl, i, h, j, deps) ==
  IF j >= i THEN deps
  ELSE IF h \in gl[j].objects_produced
       THEN AddDependency(deps, gl[j].graph_id, h)
       ELSE ScanProducers_First(gl, i, h, j + 1, deps)

\* the scan over range(len(graph_list)) instead of range(i)
RECURSIVE ScanProducers_All(_, _, _, _, _)
ScanProducers_All(gl, i, h, j, deps) ==
  IF j > Len(gl) THEN deps
  ELSE ScanProducers_All(gl, i, h, j + 1,
         IF h \in gl[j].objects_produced
         THEN AddDependency(deps, gl[j].graph_id, h) ELSE deps)

\* the scan without the test "obj_hash in prev_graph.objects_produced"
RECURSIVE ScanProducers_NoTest(_, _, _, _, _)
ScanProducers_NoTest(gl, i, h, j, deps) ==
  IF j >= i THEN deps
  ELSE ScanProducers_NoTest(gl, i, h, j + 1,
                            AddDependency(deps, gl[j].graph_id, h))

\* for j in range(i): graph_list positions 1..i-1 here, scanned from j
RECURSIVE ScanProducers(_, _, _, _, _)
ScanProducers(gl, i, h, j, deps) ==
  IF j >= i THEN deps
  ELSE ScanProducers(gl, i, h, j + 1,
         IF h \in gl[j].objects_produced
         THEN AddDependency(deps, gl[j].graph_id, h) ELSE deps)

\* for obj_hash in graph.objects_consumed, in the iteration order `order`
RECURSIVE ScanConsumed(_, _, _, _)
ScanConsumed(gl, i, order, deps) ==
  IF order = <<>> THEN deps
  ELSE ScanConsumed(gl, i, Tail(order),
                    ScanProducers(gl, i, Head(order), 1, deps))

\* The iteration orders a set of hashes can have (not fixed by the language).
Orders(S) ==
  {o \in [1..Cardinality(S) -> S] : \A a \in S : \E n \in DOMAIN o : o[n] = a}

AllOrders == UNION {Orders(S) : S \in SUBSET Hashes}

\* graph_list after the resolver ran, the consumed set of graph i iterated in
\* order orders[i]
BuildDependencies(gl, orders) ==
  [i \in 1..Len(gl) |->
     [gl[i] EXCEPT !.dependencies = ScanConsumed(gl, i, orders[i], @)]]

\* the graph stored under its device name instead of its id
DictStore_ByDevice(gl, tg) ==
  IF \E i \in 1..Len(gl) : gl[i].device = tg.device
  THEN [i \in 1..Len(gl) |-> IF gl[i].device = tg.device THEN tg ELSE gl[i]]
  ELSE Append(gl, tg)

\* self.graphs[graph_id] = task_graph : a dict keeps the position of a key
\* it already holds
DictStore(gl, tg) ==
  IF \E i \in 1..Len(gl) : gl[i].graph_id = tg.graph_id
  THEN [i \in 1..Len(gl) |-> IF gl[i].graph_id = tg.graph_id THEN tg ELSE gl[i]]
  ELSE Append(gl, tg)

\* ------------------------------------------------------------- sections
\* A section of re.split(r'(?=Interpreter instance running bytecodes)', text):
\*   pre     "blank": nothing but whitespace; "text": other text without the
\*           banner (both only before the first banner); "banner": the
\*           section starts with the banner
\*   device  the text between "for:" and "Running in thread:" (<< >>: the
\*           clause is missing), words and single blanks
\*   thread  the text after "Running in thread:" up to the end of the line
\*   lines   the lines of the section after the banner line
Section(pre, device, thread) ==
  [pre |-> pre, device |-> device, thread |-> thread, lines |-> <<>>]

\* r'...for:\s+(.+?)\s+Running in thread:\s+(.+)' finds a match in the section
HeaderMatch(sec) ==
  /\ sec.pre = "banner"
  /\ Len(sec.device) >= 3
  /\ sec.device[1] = " " /\ sec.device[Len(sec.device)] = " "
  /\ Len(sec.thread) >= 2
  /\ sec.thread[1] = " "

\* header_match.group(1).strip(), header_match.group(2).strip()
HeaderDevice(sec) == Join(Strip(sec.device))
HeaderThread(sec) == Join(Strip(Tail(sec.thread)))

RECURSIVE SumLines(_)
SumLines(secs) ==
  IF secs = <<>> THEN 0 ELSE Len(Head(secs).lines) + SumLines(Tail(secs))

\* the index counted from 0 in every graph
SumOperations_Zero(gl) == 0

\* sum(len(g.operations) for g in self.graphs.values())
RECURSIVE SumOperations(_)
SumOperations(gl) ==
  IF gl = <<>> THEN 0 ELSE Len(Head(gl).operations) + SumOperations(Tail(gl))

WithLines(sec, ls) == [sec EXCEPT !.lines = ls]

\* "Interpreter instance running bytecodes for: CPU0 Running in thread: T1"
Banner == Section("banner", <<" ", "CPU0", " ">>, <<" ", "T1">>)
\* the banner without its thread clause, and without its device clause
BannerNoThread == Section("banner", <<" ", "CPU0", " ">>, <<>>)
BannerNoDevice == Section("banner", <<>>, <<" ", "T1">>)
\* text before the first banner
Preamble == Section("text", <<>>, <<>>)

\* ------------------------------------------------------------- parse_log
\* parse_log as a function of the parser it is called on and of the whole text,
\* ps = [graphs, memory_objects, bytecode_details].

\* "for line in lines" of _parse_task_graph, st = [tg, mem, det, idx]
RECURSIVE ParseLines(_, _)
ParseLines(st, lines) ==
  IF lines = <<>> THEN st
  ELSE
    LET line == Head(lines)
        ops == IF line.bc THEN ParseOperation(line) ELSE <<>>
        st1 == IF ops = <<>> THEN st
               ELSE LET r == ProcessOperation(ops[1], st.tg, st.mem) IN
                    [tg |-> r.tg,
                     mem |-> r.mem,
                     det |-> Append(st.det,
                               [TaskGraph |-> st.tg.graph_id,
                                Operation |-> ops[1].operation,
                                GlobalIndex |-> st.idx,
                                Objects |-> ops[1].objects,
                                TaskName |-> ops[1].task_name]),
                     idx |-> st.idx + 1]
    IN ParseLines(st1, Tail(lines))

\* _parse_task_graph(section, gid)
ParseTaskGraph(ps, sec, gid) ==
  IF ~HeaderMatch(sec) THEN ps
  ELSE
    LET r == ParseLines(
               [tg |-> TaskGraph(gid, HeaderDevice(sec), HeaderThread(sec)),
                mem |-> ps.memory_objects,
                det |-> ps.bytecode_details,
                idx |-> SumOperations(ps.graphs)],
               sec.lines)
    IN [graphs |-> DictStore(ps.graphs, r.tg),
        memory_objects |-> r.mem,
        bytecode_details |-> r.det]

\* "for section in sections" of parse_log, n the value of graph_id
RECURSIVE ParseSections(_, _, _)
ParseSections(ps, secs, n) ==
  IF secs = <<>> THEN ps
  ELSE IF Head(secs).pre = "blank" THEN ParseSections(ps, Tail(secs), n)
  ELSE ParseSections(ParseTaskGraph(ps, Head(secs), GraphName(n)),
                     Tail(secs), n + 1)

\* parse_log(text) on a parser in state ps, the consumed sets iterated in
\* `orders` by _build_dependencies
ParseText(ps, secs, orders) ==
  LET r == ParseSections(ps, secs, 0) IN
  [r EXCEPT !.graphs = BuildDependencies(@, orders)]

\* ------------------------------------------------------------- analyzers/
\* PerformanceAnalyzer.generate_task_summary over the graphs of a parser.

\* str(n) for the graph numbers of the model, and the text of a graph id
Digits == <<"0", "1", "2", "3", "4", "5", "6", "7", "8", "9">>
IdText(gid) == gid[1] \o "_" \o Digits[gid[2] + 1]
SetupName(gid) == IdText(gid) \o "_setup"     \* f"{graph_id}_setup"
MainName(gid) == IdText(gid) \o "_main"       \* f"{graph_id}_main"

\* task_operations[name].append(op) on a defaultdict(list)
AppendTo(task_operations, name, op) ==
  [k \in DOMAIN task_operations \cup {name} |->
     IF k = name
     THEN Append(IF name \in DOMAIN task_operations
                 THEN task_operations[name] ELSE <<>>, op)
     ELSE task_operations[k]]

\* "for op in graph.operations" carrying acc = [current_task,
\* task_operations, task_execution_order]; current_task is "" for None
RECURSIVE TrackTasks(_, _, _)
TrackTasks(acc, ops, gid) ==
  IF ops = <<>> THEN acc
  ELSE
    LET op == Head(ops)
        launch == op.operation = "LAUNCH" /\ op.task_name # ""
        current_task == IF launch THEN op.task_name ELSE acc.current_task
        order == IF launch /\ \A n \in DOMAIN acc.task_execution_order :
                               acc.task_execution_order[n] # current_task
                 THEN Append(acc.task_execution_order, current_task)
                 ELSE acc.task_execution_order
        bucket == IF current_task # "" THEN current_task ELSE SetupName(gid)
    IN TrackTasks([current_task |-> current_task,
                   task_operations |-> AppendTo(acc.task_operations, bucket, op),
                   task_execution_order |-> order],
                  Tail(ops), gid)

\* sum(1 for op in ops if op.operation == kind)
CountKind(ops, kind) ==
  Cardinality({n \in DOMAIN ops : ops[n].operation = kind})

\* a row of task_data; Task is the marker, the name and the count its text
\* is formatted from
SummaryRow(gid, task, ops) ==
  [TaskGraph |-> gid, Task |-> task,
   Allocations |-> CountKind(ops, "ALLOC"),
   Deallocations |-> CountKind(ops, "DEALLOC"),
   NumOperations |-> Len(ops)]

\* the rows of one graph: its summary, then one row per task in
\* task_execution_order
GraphRows(graph) ==
  LET gid == graph.graph_id
      acc == TrackTasks([current_task |-> "", task_operations |-> EmptyDict,
                         task_execution_order |-> <<>>],
                        graph.operations, gid)
      task_operations ==
        IF DOMAIN acc.task_operations = {}
        THEN [k \in {MainName(gid)} |-> graph.operations]
        ELSE acc.task_operations
      task_execution_order ==
        IF DOMAIN acc.task_operations = {} THEN <<MainName(gid)>>
        ELSE IF SetupName(gid) \in DOMAIN acc.task_operations
             THEN <<SetupName(gid)>> \o acc.task_execution_order
             ELSE acc.task_execution_order
  IN <<SummaryRow(gid, <<"graph", IdText(gid), Len(graph.operations)>>,
                  graph.operations)>>
     \o [n \in DOMAIN task_execution_order |->
          LET name == task_execution_order[n] IN
          SummaryRow(gid, <<"task", name, Len(task_operations[name])>>,
                     task_operations[name])]

\* the row that stands for an empty frame
NoData ==
  [TaskGraph |-> <<"No Data">>, Task |-> <<"none", "No Tasks Found", 0>>,
   Allocations |-> 0, Deallocations |-> 0, NumOperations |-> 0]

RECURSIVE AllRows(_)
AllRows(gl) == IF gl = <<>> THEN <<>> ELSE GraphRows(Head(gl)) \o AllRows(Tail(gl))

\* generate_task_summary()
GenerateTaskSummary(gl) ==
  IF AllRows(gl) = <<>> THEN <<NoData>> ELSE AllRows(gl)

\* ------------------------------------------------------------- state
VARIABLES
  log,               \* the sections of log_content read so far
  pc,                \* where parse_log stands
  graph_id,          \* parse_log's counter
  task_graph,        \* _parse_task_graph's graph under construction, <<g>>
  global_op_index,   \* _parse_task_graph's counter
  graphs,            \* self.graphs, in insertion order
  memory_objects,    \* self.memory_objects
  bytecode_details,  \* self.bytecode_details
  set_order,         \* the iteration orders _build_dependencies met
  twin,              \* the parser state after a second parse_log, <<ps>>
  obj_ref,           \* the reference handed to _extract_hash and _extract_type
  decoded,           \* what they returned, <<>> before the call
  task_data          \* the rows of generate_task_summary, <<>> before the call

vars == <<log, pc, graph_id, task_graph, global_op_index, graphs,
          memory_objects, bytecode_details, set_order, twin, obj_ref,
          decoded, task_data>>

parser == <<graphs, memory_objects, bytecode_details>>

\* BytecodeParser() and the entry of parse_log
Init ==
  /\ log = <<>>
  /\ pc = "split"
  /\ graph_id = 0
  /\ task_graph = <<>>
  /\ global_op_index = 0
  /\ graphs = <<>>
  /\ memory_objects = [h \in {} |-> MemoryObject(h, "")]
  /\ bytecode_details = <<>>
  /\ set_order = <<>>
  /\ twin = <<>>
  /\ obj_ref = <<>>
  /\ decoded = <<>>
  /\ task_data = <<>>

\* the logs of a specification: the lines of its graphs, the sections without
\* a header it may hold, and how many banner sections and lines
Bounds(L, S, nsec, nlines) ==
  [lines |-> L, skipped |-> S, nsec |-> nsec, nlines |-> nlines]

\* sections[0] is whitespace only: "continue", graph_id is not advanced
BlankPreamble ==
  /\ pc = "split"
  /\ log' = <<Section("blank", <<>>, <<>>)>>
  /\ pc' = "sections"
  /\ UNCHANGED <<graph_id, task_graph, global_op_index, parser, set_order,
                 twin>>
  /\ UNCHANGED <<obj_ref, decoded, task_data>>

\* the section handed to the loop over the lines although the header pattern
\* finds nothing
SkipSection_Parsed(B, sec) ==
  /\ ~HeaderMatch(sec)
  /\ SumLines(log) + Len(sec.lines) <= B.nlines
  /\ log' = Append(log, sec)
  /\ graph_id' = graph_id + 1
  /\ pc' = "sections"
  /\ LET r == ParseLines([tg |-> TaskGraph(GraphName(graph_id), "", ""),
                          mem |-> memory_objects,
                          det |-> bytecode_details,
                          idx |-> SumOperations(graphs)], sec.lines)
     IN /\ graphs' = DictStore(graphs, r.tg)
        /\ memory_objects' = r.mem
        /\ bytecode_details' = r.det
  /\ UNCHANGED <<task_graph, global_op_index, set_order, twin>>
  /\ UNCHANGED <<obj_ref, decoded, task_data>>

\* a section in which the header pattern finds nothing: _parse_task_graph
\* returns at once and parse_log advances graph_id
SkipSection(B, sec) ==
  /\ ~HeaderMatch(sec)
  /\ SumLines(log) + Len(sec.lines) <= B.nlines
  /\ log' = Append(log, sec)
  /\ graph_id' = graph_id + 1
  /\ pc' = "sections"
  /\ UNCHANGED <<task_graph, global_op_index, parser, set_order, twin>>
  /\ UNCHANGED <<obj_ref, decoded, task_data>>

\* sections[0] is text without a banner
TextPreamble(B) ==
  /\ pc = "split"
  /\ \E sec \in B.skipped : sec.pre = "text" /\ SkipSection(B, sec)

\* a later section whose banner the header pattern does not match
SkipBanner(B) ==
  /\ pc = "sections"
  /\ Len(log) <= B.nsec
  /\ \E sec \in B.skipped : sec.pre = "banner" /\ SkipSection(B, sec)

\* _parse_task_graph up to the loop over the lines
BeginGraph(B) ==
  /\ pc = "sections"
  /\ Len(log) <= B.nsec
  /\ \E b \in {Banner} :
       /\ HeaderMatch(b)
       /\ log' = Append(log, b)
       /\ task_graph' =
            <<TaskGraph(GraphName(graph_id), HeaderDevice(b), HeaderThread(b))>>
  /\ global_op_index' = SumOperations(graphs)
  /\ pc' = "lines"
  /\ UNCHANGED <<graph_id, parser, set_order, twin>>
  /\ UNCHANGED <<obj_ref, decoded, task_data>>

\* one pass of "for line in lines"
ReadLine(B) ==
  /\ pc = "lines"
  /\ SumLines(log) < B.nlines
  /\ \E line \in B.lines :
       LET ops == IF line.bc THEN ParseOperation(line) ELSE <<>> IN
       /\ log' = [log EXCEPT ![Len(log)].lines = Append(@, line)]
       /\ IF ops = <<>>
          THEN UNCHANGED <<task_graph, global_op_index, memory_objects,
                           bytecode_details>>
          ELSE LET operation == ops[1]
                   st == ProcessOperation(operation, task_graph[1],
                                          memory_objects)
               \* "Details", the text after the kind, is the line in `log`;
               \* "Objects" is kept as the list that ", ".join() renders
               IN /\ bytecode_details' = Append(bytecode_details,
                       [TaskGraph |-> task_graph[1].graph_id,
                        Operation |-> operation.operation,
                        GlobalIndex |-> global_op_index,
                        Objects |-> operation.objects,
                        TaskName |-> operation.task_name])
                  /\ global_op_index' = global_op_index + 1
                  /\ task_graph' = <<st.tg>>
                  /\ memory_objects' = st.mem
  /\ UNCHANGED <<pc, graph_id, graphs, set_order, twin>>
  /\ UNCHANGED <<obj_ref, decoded, task_data>>

\* the resolver run at the end of every section
EndGraph_Resolving ==
  /\ pc = "lines"
  /\ LET gl == DictStore(graphs, task_graph[1]) IN
     \E orders \in [1..Len(gl) -> AllOrders] :
       /\ \A i \in 1..Len(gl) : orders[i] \in Orders(gl[i].objects_consumed)
       /\ graphs' = BuildDependencies(gl, orders)
  /\ task_graph' = <<>>
  /\ graph_id' = graph_id + 1
  /\ pc' = "sections"
  /\ UNCHANGED <<log, global_op_index, memory_objects, bytecode_details,
                 set_order, twin, obj_ref, decoded, task_data>>

\* the end of _parse_task_graph and of the pass of parse_log's loop
EndGraph ==
  /\ pc = "lines"
  /\ graphs' = DictStore(graphs, task_graph[1])
  /\ task_graph' = <<>>
  /\ graph_id' = graph_id + 1
  /\ pc' = "sections"
  /\ UNCHANGED <<log, global_op_index, memory_objects, bytecode_details,
                 set_order, twin>>
  /\ UNCHANGED <<obj_ref, decoded, task_data>>

\* no section is left: self._build_dependencies()
Resolve ==
  /\ pc = "sections"
  /\ \E orders \in [1..Len(graphs) -> AllOrders] :
       /\ \A i \in 1..Len(graphs) :
            orders[i] \in Orders(graphs[i].objects_consumed)
       /\ graphs' = BuildDependencies(graphs, orders)
       /\ set_order' = orders
  /\ pc' = "done"
  /\ UNCHANGED <<log, graph_id, task_graph, global_op_index, memory_objects,
                 bytecode_details, twin>>
  /\ UNCHANGED <<obj_ref, decoded, task_data>>

\* self._build_dependencies() run once more over the graphs of the parse
ResolveAgain ==
  /\ pc \in {"done", "resolved"}
  /\ \E orders \in [1..Len(graphs) -> AllOrders] :
       /\ \A i \in 1..Len(graphs) :
            orders[i] \in Orders(graphs[i].objects_consumed)
       /\ graphs' = BuildDependencies(graphs, orders)
  /\ pc' = "resolved"
  /\ UNCHANGED <<log, graph_id, task_graph, global_op_index, memory_objects,
                 bytecode_details, set_order, twin, obj_ref, decoded, task_data>>

\* PerformanceAnalyzer(parser.graphs, parser.memory_objects)
\*   .generate_task_summary() after the parse
TaskSummary ==
  /\ pc = "done"
  /\ task_data' = GenerateTaskSummary(graphs)
  /\ pc' = "summary"
  /\ UNCHANGED <<log, graph_id, task_graph, global_op_index, parser,
                 set_order, twin, obj_ref, decoded>>

\* self.graphs = {}, self.memory_objects = {}, self.bytecode_details = []
\* held by the class and shared by its instances
FreshParser_Shared ==
  [graphs |-> graphs, memory_objects |-> memory_objects,
   bytecode_details |-> bytecode_details]

\* BytecodeParser()
FreshParser ==
  [graphs |-> <<>>, memory_objects |-> EmptyDict, bytecode_details |-> <<>>]

\* the state parse_log left on self
SelfParser ==
  [graphs |-> graphs, memory_objects |-> memory_objects,
   bytecode_details |-> bytecode_details]

\* BytecodeParser().parse_log(log_content) once more, in the interpreter that
\* ran the first parse (same) or in another one: equal sets filled by the same
\* insertions iterate alike within one interpreter
SecondInstance ==
  /\ pc = "done"
  /\ \E same \in BOOLEAN, orders \in [1..Len(graphs) -> AllOrders] :
       /\ \A i \in 1..Len(graphs) :
            orders[i] \in Orders(graphs[i].objects_consumed)
       /\ same => orders = set_order
       /\ twin' = <<ParseText(FreshParser, log, orders)>>
       /\ pc' = IF same THEN "twin" ELSE "twin_elsewhere"
  /\ UNCHANGED <<log, graph_id, task_graph, global_op_index, parser,
                 set_order>>
  /\ UNCHANGED <<obj_ref, decoded, task_data>>

\* parser.parse_log(log_content) a second time on the same instance
SecondCall ==
  /\ pc = "done"
  /\ \E orders \in [1..Len(graphs) -> AllOrders] :
       /\ \A i \in 1..Len(graphs) :
            orders[i] \in Orders(graphs[i].objects_consumed)
       /\ twin' = <<ParseText(SelfParser, log, orders)>>
  /\ pc' = "again"
  /\ UNCHANGED <<log, graph_id, task_graph, global_op_index, parser,
                 set_order>>
  /\ UNCHANGED <<obj_ref, decoded, task_data>>

ParseLog(B) ==
  \/ BlankPreamble
  \/ TextPreamble(B)
  \/ SkipBanner(B)
  \/ BeginGraph(B)
  \/ ReadLine(B)
  \/ EndGraph
  \/ Resolve

\* ------------------------------------------------------------- logs
\* Lines about the life of one object: every operation kind on aa11.
ObjectLines ==
  { AllocLine(RefA, 1024),
    TransferLine("TRANSFER_HOST_TO_DEVICE_ONCE", RefA, 2048),
    TransferLine("TRANSFER_DEVICE_TO_HOST_ALWAYS", RefA, 0),
    DeallocLine(RefA, <<" ", "Persisted", " ", "object", " ">>),
    DeallocLine(RefA, <<" ", " ">>),
    [DeallocLine(RefA, <<>>) EXCEPT !.hasStatus = FALSE],
    DeviceLine("ON_DEVICE_BUFFER", RefA),
    DeviceLine("ON_DEVICE", RefA),
    LaunchLine("s0.t0"),
    OtherLine("STREAM_IN", <<RefA, RefB>>) }

\* Lines that produce and consume two objects in several graphs.
GraphLines ==
  { AllocLine(RefA, 1024),
    TransferLine("TRANSFER_HOST_TO_DEVICE_ONCE", RefB, 2048),
    DeviceLine("ON_DEVICE_BUFFER", RefA),
    OtherLine("STREAM_IN", <<RefA, RefB>>) }

ObjectSkipped == {Preamble, BannerNoThread}

Next == ParseLog(Bounds(ObjectLines, ObjectSkipped, MaxObjSections, MaxObjLines))
Spec == Init /\ [][Next]_vars

GraphSkipped ==
  { Preamble, WithLines(Preamble, <<AllocLine(RefA, 1024)>>),
    BannerNoThread, WithLines(BannerNoDevice, <<AllocLine(RefA, 1024)>>) }

NextGraphs == ParseLog(Bounds(GraphLines, GraphSkipped, MaxSections, MaxLines))
SpecGraphs == Init /\ [][NextGraphs]_vars

\* Lines a decoder has to tolerate: details that do not fit the pattern of
\* their kind, a launch twice and one without a task, a launch and a barrier
\* with an object reference in their text, a marker with nothing after it, a
\* line without the marker.
DecodeLines ==
  { [AllocLine(RefA, 0) EXCEPT !.clause = FALSE],
    [DeviceLine("ON_DEVICE", RefB) EXCEPT !.tag = FALSE],
    [LaunchLine("s0.t0") EXCEPT !.refs = <<RefA>>],
    LaunchLine(""),
    [BaseLine EXCEPT !.kind = "BARRIER", !.event = <<3>>, !.refs = <<RefB>>],
    OtherLine("STREAM_IN", <<RefB>>),
    BaseLine,
    [AllocLine(RefA, 1024) EXCEPT !.bc = FALSE] }

NextDecode ==
  ParseLog(Bounds(DecodeLines, ObjectSkipped, MaxDecodeSections, MaxDecodeLines))
SpecDecode == Init /\ [][NextDecode]_vars

\* References handed to the two extraction functions: paths of known and
\* unknown type names, with '@hash', with ':@hash' and without a hash.
TypeNames ==
  {"pkg", "Type", "IntArray", "VectorFloat", "Matrix2DFloat", "TensorFP32",
   "KernelContext"}
Paths == UNION {[1..n -> TypeNames] : n \in 1..MaxComponents}
Refs == {Ref(path, sep, "abc123") : path \in Paths, sep \in {"@", ":@", ""}}

InitRefs ==
  /\ log = <<>>
  /\ pc = "refs"
  /\ graph_id = 0
  /\ task_graph = <<>>
  /\ global_op_index = 0
  /\ graphs = <<>>
  /\ memory_objects = EmptyDict
  /\ bytecode_details = <<>>
  /\ set_order = <<>>
  /\ twin = <<>>
  /\ obj_ref \in Refs
  /\ decoded = [hash |-> <<>>, type |-> <<>>]
  /\ task_data = <<>>

\* self._extract_hash(obj_ref)
DecodeHash ==
  /\ pc = "refs"
  /\ decoded.hash = <<>>
  /\ decoded' = [decoded EXCEPT !.hash = <<ExtractHash(obj_ref)>>]
  /\ UNCHANGED <<log, pc, graph_id, task_graph, global_op_index, parser,
                 set_order, twin, obj_ref, task_data>>

\* self._extract_type(obj_ref)
DecodeType ==
  /\ pc = "refs"
  /\ decoded.type = <<>>
  /\ decoded' = [decoded EXCEPT !.type = <<ExtractType(obj_ref)>>]
  /\ UNCHANGED <<log, pc, graph_id, task_graph, global_op_index, parser,
                 set_order, twin, obj_ref, task_data>>

NextRefs == DecodeHash \/ DecodeType
SpecRefs == InitRefs /\ [][NextRefs]_vars

\* the same text parsed a second time, by a second instance or by the same one
TwiceSkipped == {Preamble, BannerNoThread}

NextTwice ==
  \/ ParseLog(Bounds(GraphLines, TwiceSkipped, MaxTwiceSections, MaxTwiceLines))
  \/ SecondInstance
  \/ SecondCall
SpecTwice == Init /\ [][NextTwice]_vars

\* The life of one object over several graphs: a size present and 0, every
\* status-setting kind, and references to aa11 under another type path.
RefA2 == Ref(<<"bar", "FloatArray">>, "@", "aa11")
LifeLines ==
  { AllocLine(RefA, 1024),
    AllocLine(RefA2, 0),
    TransferLine("TRANSFER_HOST_TO_DEVICE_ONCE", RefA, 2048),
    DeviceLine("ON_DEVICE", RefA),
    DeviceLine("ON_DEVICE_BUFFER", RefA2),
    DeallocLine(RefA, <<" ", "Persisted", " ", "object", " ">>) }

NextLife ==
  ParseLog(Bounds(LifeLines, ObjectSkipped, MaxLifeSections, MaxLifeLines))
SpecLife == Init /\ [][NextLife]_vars

\* Launches of two tasks and of a task that bears the name of the setup
\* bucket of the first graph, a launch without a task, and other operations.
SummaryLines ==
  { LaunchLine("s0.t0"),
    LaunchLine("s0.t1"),
    LaunchLine(SetupName(GraphName(0))),
    LaunchLine(""),
    [BaseLine EXCEPT !.kind = "BARRIER", !.event = <<3>>],
    AllocLine(RefA, 1024) }

NextSummary ==
  \/ ParseLog(Bounds(SummaryLines, ObjectSkipped, MaxSummarySections,
                     MaxSummaryLines))
  \/ TaskSummary
SpecSummary == Init /\ [][NextSummary]_vars

\* the resolver run again after the parse
NextResolve ==
  \/ ParseLog(Bounds(GraphLines, TwiceSkipped, MaxTwiceSections, MaxTwiceLines))
  \/ ResolveAgain
SpecResolve == Init /\ [][NextResolve]_vars

\* ============================================================= claims
Elems(seq) == {seq[n] : n \in DOMAIN seq}

\* the positions of graph id gid in self.graphs
PositionsOf(gid) == {j \in 1..Len(graphs) : graphs[j].graph_id = gid}

\* the banner sections of the text in which the header pattern resolves a
\* device and a thread
ResolvableBanners == {i \in 1..Len(log) : HeaderMatch(log[i])}

\* C1: after parse_log the graph map holds exactly one TaskGraph for every
\* banner of the text with a resolvable device and thread, and no other.
C1_GraphPerBanner ==
  pc = "done" => Len(graphs) = Cardinality(ResolvableBanners)

\* two graphs were built and a banner without a header and lines before the
\* first banner were passed over
C1_Witness ==
  /\ pc = "done"
  /\ Len(graphs) = 2
  /\ log[1].pre = "text" /\ log[1].lines # <<>>
  /\ \E i \in 1..Len(log) : log[i].pre = "banner" /\ ~HeaderMatch(log[i])

\* C2: the ids of the k graphs of a parse are TaskGraph_0 .. TaskGraph_(k-1)
\* in log order; skipped sections are not counted.
C2_SequentialIds ==
  pc = "done" =>
    \A n \in 1..Len(graphs) : graphs[n].graph_id = GraphName(n - 1)

\* C3: every hash h of an entry G2.dependencies[G1] is produced by G1,
\* consumed by G2, and G1 stands before G2 in discovery order.
C3_DependencySound ==
  pc = "done" =>
    \A i \in 1..Len(graphs) :
      \A pid \in DOMAIN graphs[i].dependencies :
        \A h \in Elems(graphs[i].dependencies[pid]) :
          /\ h \in graphs[i].objects_consumed
          /\ \E j \in 1..(i - 1) :
               graphs[j].graph_id = pid /\ h \in graphs[j].objects_produced

\* a graph depends on an earlier one for an object, and an earlier graph
\* that did not produce the object has no edge from it
C3_Witness ==
  /\ pc = "done"
  /\ \E i \in 1..Len(graphs), j \in 1..Len(graphs) :
       /\ j < i
       /\ graphs[j].graph_id \notin DOMAIN graphs[i].dependencies
       /\ DOMAIN graphs[i].dependencies # {}

\* C4: a graph has an edge, carrying h, to every earlier graph that produced
\* a hash h it consumes, not only to the nearest one.
C4_DependencyComplete ==
  pc = "done" =>
    \A i \in 1..Len(graphs) :
      \A h \in graphs[i].objects_consumed :
        \A j \in 1..(i - 1) :
          h \in graphs[j].objects_produced =>
            /\ graphs[j].graph_id \in DOMAIN graphs[i].dependencies
            /\ h \in Elems(graphs[i].dependencies[graphs[j].graph_id])

\* two earlier graphs produced the hash a third one consumes: two edges
C4_Witness ==
  /\ pc = "done"
  /\ \E i \in 1..Len(graphs), h \in Hashes :
       Cardinality({pid \in DOMAIN graphs[i].dependencies :
                      h \in Elems(graphs[i].dependencies[pid])}) = 2

\* C5: in every state, no graph has a dependency entry for itself or for a
\* graph discovered after it: an edge leads to a strictly earlier position.
C5_Acyclic ==
  \A i \in 1..Len(graphs) :
    \A pid \in DOMAIN graphs[i].dependencies :
      \A j \in PositionsOf(pid) : j < i

\* a graph that itself produced the hash it consumes depends on the earlier
\* producer only
C5_Witness ==
  /\ pc = "done"
  /\ \E i \in 1..Len(graphs) :
       /\ graphs[i].objects_produced \cap graphs[i].objects_consumed # {}
       /\ DOMAIN graphs[i].dependencies # {}

\* ------------------------------------------------------------- one operation
\* this step is one _process_operation call
Processed ==
  /\ pc = "lines" /\ pc' = "lines"
  /\ Len(task_graph'[1].operations) = Len(task_graph[1].operations) + 1

\* the operation that call appended, and its index
NewIndex == Len(task_graph[1].operations)
NewOp == task_graph'[1].operations[NewIndex + 1]

Refers(op, h) == \E n \in DOMAIN op.objects : ExtractHash(op.objects[n]) = h

SetsStatus(op) ==
  \/ op.operation \in {"ALLOC", "DEALLOC", "ON_DEVICE_BUFFER"}
  \/ StartsWithTransfer(op.operation)

\* the MemoryObject of h before the step; the defaults if it had none
Before(h) ==
  IF h \in DOMAIN memory_objects THEN memory_objects[h]
  ELSE MemoryObject(h, "")

\* the line read last in the section being parsed
LastLine == log[Len(log)].lines[Len(log[Len(log)].lines)]
LineRead == pc = "lines" /\ log[Len(log)].lines # <<>>

C6_AllocStep ==
  \A h \in Hashes :
    /\ (Processed /\ NewOp.operation = "ALLOC" /\ Refers(NewOp, h)) =>
         /\ h \in DOMAIN memory_objects'
         /\ memory_objects'[h].current_status = "Allocated"
         /\ memory_objects'[h].allocated_in_graph = task_graph'[1].graph_id
         /\ memory_objects'[h].allocation_op_index = NewIndex
         /\ task_graph'[1].operations[
              memory_objects'[h].allocation_op_index + 1].operation = "ALLOC"
         /\ h \in task_graph'[1].objects_produced
    /\ ( /\ h \in DOMAIN memory_objects
         /\ memory_objects[h].current_status = "Allocated"
         /\ ~(Processed /\ SetsStatus(NewOp) /\ Refers(NewOp, h)) ) =>
         /\ h \in DOMAIN memory_objects'
         /\ memory_objects'[h].current_status = "Allocated"

\* C6: right after an ALLOC referencing h is processed in graph G, h is
\* 'Allocated', allocated in G at the operation's position in G.operations and
\* produced by G; the status stays 'Allocated' in every step that is not an
\* ALLOC, TRANSFER_*, DEALLOC or ON_DEVICE_BUFFER operation referencing h.
C6_Allocated == [][C6_AllocStep]_vars

\* an object allocated as the second operation of its graph is still
\* 'Allocated' after an operation of another kind referenced it
C6_Witness ==
  /\ pc = "lines"
  /\ Len(task_graph[1].operations) = 3
  /\ task_graph[1].operations[2].operation = "ALLOC"
  /\ task_graph[1].operations[3].operation \in {"ON_DEVICE", "STREAM_IN"}
  /\ Refers(task_graph[1].operations[3], "aa11")
  /\ memory_objects["aa11"].current_status = "Allocated"
  /\ memory_objects["aa11"].allocation_op_index = 1

\* the operations parsed so far with their graph and index, in log order
OpEntries(g) ==
  [n \in 1..Len(g.operations) |-> <<g.operations[n], g.graph_id, n - 1>>]

RECURSIVE EntriesOf(_)
EntriesOf(gl) ==
  IF gl = <<>> THEN <<>> ELSE OpEntries(Head(gl)) \o EntriesOf(Tail(gl))

AllEntries == EntriesOf(graphs \o task_graph)

\* the TRANSFER_* references to h, in log order
TransfersOf(h) ==
  LET IsTransfer(e) == StartsWithTransfer(e[1].operation) /\ Refers(e[1], h)
      es == SelectSeq(AllEntries, IsTransfer)
  IN [n \in 1..Len(es) |-> <<es[n][1].operation, es[n][2], es[n][3]>>]

C7_TransferStep ==
  \A h \in Hashes :
    (Processed /\ StartsWithTransfer(NewOp.operation) /\ Refers(NewOp, h)) =>
      /\ h \in DOMAIN memory_objects'
      /\ memory_objects'[h].transfer_history =
           Append(Before(h).transfer_history,
                  <<NewOp.operation, task_graph[1].graph_id, NewIndex>>)
      /\ memory_objects'[h].current_status = "Transferred"
      /\ h \in task_graph'[1].objects_produced

C7_HistoryIsLog ==
  \A h \in DOMAIN memory_objects :
    memory_objects[h].transfer_history = TransfersOf(h)

\* C7: every TRANSFER_* operation referencing h in G appends one entry (kind,
\* G, index) at the end of h's transfer_history, sets 'Transferred' and adds h
\* to G.objects_produced; the history is the TRANSFER_* references to h in
\* log order.
C7_Transfers == [][C7_TransferStep]_vars /\ []C7_HistoryIsLog

\* two transfers of different kinds of one object
C7_Witness ==
  /\ "aa11" \in DOMAIN memory_objects
  /\ Len(memory_objects["aa11"].transfer_history) = 2
  /\ memory_objects["aa11"].transfer_history[1][1] = "TRANSFER_DEVICE_TO_HOST_ALWAYS"
  /\ memory_objects["aa11"].transfer_history[2][1] = "TRANSFER_HOST_TO_DEVICE_ONCE"
  /\ memory_objects["aa11"].transfer_history[2][3] = 2
  /\ memory_objects["aa11"].current_status = "Transferred"

C8_DeallocStep ==
  \A h \in Hashes :
    ( /\ Processed /\ NewOp.operation = "DEALLOC" /\ Refers(NewOp, h)
      /\ NewOp.status # "" ) =>
      /\ h \in DOMAIN memory_objects'
      /\ memory_objects'[h].current_status = NewOp.status
      /\ LastLine'.status = <<" ", "Persisted", " ", "object", " ">> =>
           memory_objects'[h].current_status = "Persisted object"
      /\ memory_objects'[h].deallocation_op_index = NewIndex
      /\ memory_objects'[h].allocated_in_graph = Before(h).allocated_in_graph
      /\ memory_objects'[h].allocation_op_index = Before(h).allocation_op_index

\* C8: a DEALLOC referencing h with a status text sets h's status to the
\* trimmed text and deallocation_op_index to its index, in any lifecycle
\* state; allocated_in_graph and allocation_op_index stay as they were ("" and
\* -1 when no ALLOC referenced h).
C8_DeallocStatus == [][C8_DeallocStep]_vars

\* an object never allocated, deallocated with "Persisted object" as the
\* second operation of its graph
C8_Witness ==
  /\ "aa11" \in DOMAIN memory_objects
  /\ memory_objects["aa11"].current_status = "Persisted object"
  /\ memory_objects["aa11"].deallocation_op_index = 1
  /\ memory_objects["aa11"].allocated_in_graph = NoGraph
  /\ memory_objects["aa11"].allocation_op_index = -1

\* C9: right after a DEALLOC line that references h and has no status text
\* is read, h's deallocation_op_index is the operation's index and its
\* status is 'Freed'.
C9_DeallocNoStatus ==
  ( /\ LineRead
    /\ LastLine.bc /\ LastLine.kind = "DEALLOC" /\ LastLine.tag
    /\ LastLine.refs # <<>> /\ ~LastLine.hasStatus ) =>
    LET h == ExtractHash(LastLine.refs[1]) IN
    /\ h \in DOMAIN memory_objects
    /\ memory_objects[h].deallocation_op_index =
         Len(task_graph[1].operations) - 1
    /\ memory_objects[h].current_status = "Freed"

C10_DeviceBufferStep ==
  \A h \in Hashes :
    ( /\ Processed /\ NewOp.operation = "ON_DEVICE_BUFFER"
      /\ Refers(NewOp, h) ) =>
      /\ h \in DOMAIN memory_objects'
      /\ memory_objects'[h].current_status = "On Device"
      /\ h \in task_graph'[1].objects_consumed
      /\ task_graph'[1].objects_produced = task_graph[1].objects_produced
      /\ memory_objects'[h].size = Before(h).size
      /\ memory_objects'[h].allocated_in_graph = Before(h).allocated_in_graph
      /\ memory_objects'[h].allocation_op_index = Before(h).allocation_op_index
      /\ memory_objects'[h].deallocation_op_index =
           Before(h).deallocation_op_index
      /\ memory_objects'[h].transfer_history = Before(h).transfer_history

\* C10: an ON_DEVICE_BUFFER referencing h in G sets 'On Device' and adds h to
\* G.objects_consumed; G.objects_produced and h's size, allocating graph,
\* allocation and deallocation indices and transfer_history stay as they were.
C10_DeviceBuffer == [][C10_DeviceBufferStep]_vars

\* an allocated and transferred object is marked 'On Device'
C10_Witness ==
  /\ pc = "lines"
  /\ "aa11" \in DOMAIN memory_objects
  /\ memory_objects["aa11"].current_status = "On Device"
  /\ memory_objects["aa11"].size = 2048
  /\ memory_objects["aa11"].allocated_in_graph = task_graph[1].graph_id
  /\ Len(memory_objects["aa11"].transfer_history) = 1
  /\ "aa11" \in task_graph[1].objects_consumed
  /\ "aa11" \in task_graph[1].objects_produced

C11_OtherStep ==
  \A h \in Hashes :
    (Processed /\ ~SetsStatus(NewOp) /\ Refers(NewOp, h)) =>
      LET gid == task_graph[1].graph_id IN
      /\ h \in task_graph'[1].objects_consumed
      /\ task_graph'[1].objects_produced = task_graph[1].objects_produced
      /\ h \in DOMAIN memory_objects'
      /\ IF h \in DOMAIN memory_objects
         THEN memory_objects'[h] =
                [memory_objects[h] EXCEPT !.used_in_graphs = @ \cup {gid}]
         ELSE /\ memory_objects'[h].current_status = "Unknown"
              /\ memory_objects'[h] =
                   [MemoryObject(h, memory_objects'[h].object_type)
                      EXCEPT !.used_in_graphs = {gid}]

\* C11: an operation of a kind other than ALLOC, TRANSFER_*, DEALLOC and
\* ON_DEVICE_BUFFER referencing h in G adds h to G.objects_consumed and changes
\* nothing of h's MemoryObject but used_in_graphs; an object first seen this
\* way is registered with status 'Unknown'.
C11_OtherKinds == [][C11_OtherStep]_vars

\* STREAM_IN referenced an allocated object, which stays 'Allocated', and a
\* new one, which is 'Unknown'
C11_Witness ==
  /\ pc = "lines"
  /\ Len(task_graph[1].operations) = 2
  /\ task_graph[1].operations[2].operation = "STREAM_IN"
  /\ memory_objects["aa11"].current_status = "Allocated"
  /\ memory_objects["bb22"].current_status = "Unknown"
  /\ {"aa11", "bb22"} \subseteq task_graph[1].objects_consumed

\* the graphs with an operation that references h
UsedIn(h) == {e[2] : e \in {x \in Elems(AllEntries) : Refers(x[1], h)}}

\* C12: in every state, used_in_graphs of h is exactly the set of graphs that
\* hold an operation referencing h, and h is registered as soon as there is one.
C12_UsedInGraphs ==
  \A h \in Hashes :
    /\ h \in DOMAIN memory_objects <=> UsedIn(h) # {}
    /\ h \in DOMAIN memory_objects =>
         memory_objects[h].used_in_graphs = UsedIn(h)

\* an object referenced in two of three graphs
C12_Witness ==
  /\ pc = "done"
  /\ Len(graphs) = 3
  /\ "aa11" \in DOMAIN memory_objects
  /\ memory_objects["aa11"].used_in_graphs =
       {graphs[1].graph_id, graphs[3].graph_id}

\* C13: right after an operation of any kind, DEALLOC included, that references
\* h is processed in G, h is in G.objects_produced or in G.objects_consumed.
C13_Classified ==
  (pc = "lines" /\ task_graph[1].operations # <<>>) =>
    LET op == task_graph[1].operations[Len(task_graph[1].operations)] IN
    \A h \in Hashes :
      Refers(op, h) =>
        h \in task_graph[1].objects_produced \cup task_graph[1].objects_consumed

\* the parser state with each dependency list read as a set
Unordered(ps) ==
  [ps EXCEPT !.graphs =
     [i \in 1..Len(ps.graphs) |->
        [ps.graphs[i] EXCEPT !.dependencies =
           [k \in DOMAIN @ |-> Elems(@[k])]]]]

\* C14: a second fresh instance given the same text ends with graphs, memory
\* objects and detail records equal to those of the first; run in another
\* interpreter, it may list the hashes of a dependency entry in another order.
C14_Deterministic ==
  /\ pc = "twin" => twin[1] = SelfParser
  /\ pc = "twin_elsewhere" => Unordered(twin[1]) = Unordered(SelfParser)

\* both instances parsed two graphs, the second depending on the first for
\* two objects
C14_Witness ==
  /\ pc = "twin"
  /\ Len(twin[1].graphs) = 2
  /\ \E k \in DOMAIN twin[1].graphs[2].dependencies :
       Len(twin[1].graphs[2].dependencies[k]) = 2
  /\ Len(twin[1].bytecode_details) = 3

\* C15: a second parse_log call on the same parser leaves the result a fresh
\* instance gives for that text, which is the result of the first call.
C15_CallsIndependent ==
  pc = "again" => Unordered(twin[1]) = Unordered(SelfParser)

C17_SkipStep ==
  (Len(log') = Len(log) + 1 /\ ~HeaderMatch(log'[Len(log')])) =>
    /\ parser' = parser
    /\ task_graph' = <<>>
    /\ pc' = "sections"

\* C17: reading a section in which the header pattern finds nothing (text
\* before the first banner, a banner without device or thread), whatever
\* operation lines it holds, leaves the graphs, the memory objects and the
\* detail records as they were, and parse_log goes on to the next section.
C17_Discarded == [][C17_SkipStep]_vars

\* an ALLOC of aa11 before the first banner and another under a banner without
\* device were discarded, the graph that follows was parsed
C17_Witness ==
  /\ pc = "done"
  /\ Len(log) = 3
  /\ log[1].pre = "text" /\ log[1].lines # <<>>
  /\ log[2].pre = "banner" /\ ~HeaderMatch(log[2]) /\ log[2].lines # <<>>
  /\ "aa11" \notin DOMAIN memory_objects
  /\ Len(graphs) = 1 /\ Len(bytecode_details) = 1

\* C18: in every state of a parse on a fresh parser, there are as many detail
\* records as operations in the graphs, and the k-th record (from 0) has
\* GlobalIndex k and the graph id and kind of the k-th operation in discovery
\* order.
C18_GlobalIndex ==
  /\ Len(bytecode_details) = Len(AllEntries)
  /\ \A k \in 1..Len(bytecode_details) :
       /\ bytecode_details[k].GlobalIndex = k - 1
       /\ bytecode_details[k].TaskGraph = AllEntries[k][2]
       /\ bytecode_details[k].Operation = AllEntries[k][1].operation

\* the third record belongs to a later graph than the first
C18_Witness ==
  /\ pc = "done"
  /\ Len(bytecode_details) = 3
  /\ bytecode_details[3].GlobalIndex = 2
  /\ bytecode_details[3].TaskGraph # bytecode_details[1].TaskGraph

\* the kinds _parse_operation has a pattern for, and the pattern finding a
\* match in the details of the line
PatternKinds == {"ALLOC", "DEALLOC", "ON_DEVICE", "ON_DEVICE_BUFFER"}
HasPattern(line) == line.kind \in PatternKinds \/ StartsWithTransfer(line.kind)
PatternMatch(line) ==
  CASE line.kind = "ALLOC" -> line.refs # <<>> /\ line.clause
    [] StartsWithTransfer(line.kind) ->
         line.tag /\ line.refs # <<>> /\ line.clause
    [] line.kind = "DEALLOC" -> line.tag /\ line.refs # <<>> /\ StatusMatch(line)
    [] OTHER -> line.tag /\ line.refs # <<>>

\* C16: right after an operation line of a kind with a pattern is read whose
\* details the pattern does not match, the operation appended for it carries
\* the references the generic pattern finds in the line, numeric fields at
\* their defaults, and those objects are registered.
C16_Fallback ==
  (LineRead /\ LastLine.bc /\ HasPattern(LastLine) /\ ~PatternMatch(LastLine)) =>
    LET op == task_graph[1].operations[Len(task_graph[1].operations)] IN
    /\ op.operation = LastLine.kind
    /\ op.objects = LastLine.refs
    /\ op.size = 0 /\ op.batch_size = 0 /\ op.event_list = -1
    /\ \A n \in DOMAIN LastLine.refs :
         ExtractHash(LastLine.refs[n]) \in DOMAIN memory_objects

\* the sections _parse_task_graph makes a graph of, and the lines of a section
\* that yield an operation
IsGraphSection(sec) == HeaderMatch(sec)
IsOperationLine(line) == line.bc /\ line.kind # ""
HasTask(op) == op.task_name # ""
OfLaunch(line) == line.bc /\ line.kind = "LAUNCH" /\ line.task # ""

\* C19: in every state, the graph of a section holds one operation per line
\* of the section that has the marker and a kind, in the order of the lines,
\* and its tasks are the non-empty task names of those operations, in order,
\* a repeated name repeated.
C19_OperationsAndTasks ==
  LET secs == SelectSeq(log, IsGraphSection)
      gl == graphs \o task_graph
  IN /\ Len(gl) = Len(secs)
     /\ \A j \in 1..Len(gl) :
          LET ls == SelectSeq(secs[j].lines, IsOperationLine)
              named == SelectSeq(gl[j].operations, HasTask)
              launched == SelectSeq(secs[j].lines, OfLaunch)
          IN /\ Len(gl[j].operations) = Len(ls)
             /\ \A n \in 1..Len(ls) : gl[j].operations[n].operation = ls[n].kind
             /\ gl[j].tasks = [n \in 1..Len(named) |-> named[n].task_name]
             /\ gl[j].tasks = [n \in 1..Len(launched) |-> launched[n].task]

\* a task launched twice, between them a launch without a task and a marker
\* with nothing after it
C19_Witness ==
  /\ pc = "done"
  /\ Len(graphs) = 1
  /\ graphs[1].tasks = <<"s0.t0", "s0.t0">>
  /\ Len(graphs[1].operations) = 3
  /\ \E i \in 1..Len(log) : Len(log[i].lines) = 4

\* the dotted path as one text
RECURSIVE PathText(_)
PathText(path) ==
  IF Len(path) = 1 THEN path[1] ELSE path[1] \o "." \o PathText(Tail(path))

\* C20: for a reference path@hash without ':', the hash extracted is the text
\* after '@' and the type is the right-most component of the path that is
\* recognized, the last component if none is; for a reference with ':' the
\* type is the text before the ':'.
C20_RefDecoding ==
  pc = "refs" =>
    LET hits == {i \in DOMAIN obj_ref.path : Recognized(obj_ref.path[i])} IN
    /\ (decoded.hash # <<>> /\ obj_ref.sep = "@") =>
         decoded.hash[1] = obj_ref.hash
    /\ (decoded.type # <<>> /\ obj_ref.sep # ":@" /\ hits # {}) =>
         \E i \in hits : /\ \A j \in hits : j <= i
                         /\ decoded.type[1] = obj_ref.path[i]
    /\ (decoded.type # <<>> /\ obj_ref.sep # ":@" /\ hits = {}) =>
         decoded.type[1] = obj_ref.path[Len(obj_ref.path)]
    /\ (decoded.type # <<>> /\ obj_ref.sep = ":@") =>
         decoded.type[1] = PathText(obj_ref.path)

\* pkg.Type@abc123 gave hash abc123 and type Type
C20_Witness ==
  /\ pc = "refs"
  /\ obj_ref = Ref(<<"pkg", "Type">>, "@", "abc123")
  /\ decoded = [hash |-> <<"abc123">>, type |-> <<"Type">>]

\* C21: in every state, after any number of runs of the resolver, no
\* dependency list is empty and none holds a hash twice.
C21_Deduplicated ==
  \A i \in 1..Len(graphs) :
    \A pid \in DOMAIN graphs[i].dependencies :
      LET l == graphs[i].dependencies[pid] IN
      /\ l # <<>>
      /\ \A m, n \in DOMAIN l : l[m] = l[n] => m = n

\* the resolver ran again over a graph that has an edge carrying two hashes
C21_Witness ==
  /\ pc = "resolved"
  /\ \E i \in 1..Len(graphs) : \E pid \in DOMAIN graphs[i].dependencies :
       Len(graphs[i].dependencies[pid]) = 2

\* the positions in discovery order of the operations that reference h
EntriesOn(h) == {k \in DOMAIN AllEntries : Refers(AllEntries[k][1], h)}
Last(K) == CHOOSE k \in K : \A m \in K : m <= k

\* the operations that carry a size for h
Sized(h) ==
  {k \in EntriesOn(h) :
     /\ AllEntries[k][1].size > 0
     /\ \/ AllEntries[k][1].operation = "ALLOC"
        \/ StartsWithTransfer(AllEntries[k][1].operation)}

\* C22: in every state, so also after parse_log, the size of the MemoryObject
\* of h is the size of the last ALLOC or TRANSFER_* operation referencing h
\* with a size above 0, and 0 when there is none.
C22_LastSizeWins ==
  \A h \in DOMAIN memory_objects :
    memory_objects[h].size =
      IF Sized(h) = {} THEN 0 ELSE AllEntries[Last(Sized(h))][1].size

\* sizes 1024 and 2048 were followed by an ALLOC of size 0 in a later graph
C22_Witness ==
  /\ pc = "done"
  /\ Len(graphs) = 2
  /\ Len(AllEntries) = 3
  /\ AllEntries[1][1].size = 1024
  /\ AllEntries[2][1].size = 2048
  /\ AllEntries[3][1].operation = "ALLOC" /\ AllEntries[3][1].size = 0
  /\ memory_objects["aa11"].size = 2048

\* the first reference of the operation that resolves to h
FirstRef(op, h) ==
  op.objects[CHOOSE n \in DOMAIN op.objects :
               /\ ExtractHash(op.objects[n]) = h
               /\ \A m \in 1..(n - 1) : ExtractHash(op.objects[m]) # h]

C23_RegistryStep ==
  /\ DOMAIN memory_objects \subseteq DOMAIN memory_objects'
  /\ \A h \in DOMAIN memory_objects :
       /\ memory_objects'[h].object_id = memory_objects[h].object_id
       /\ memory_objects'[h].object_type = memory_objects[h].object_type
  /\ \A h \in DOMAIN memory_objects' \ DOMAIN memory_objects :
       /\ Processed /\ Refers(NewOp, h)
       /\ memory_objects'[h].object_id = h
       /\ memory_objects'[h].object_type = ExtractType(FirstRef(NewOp, h))
  /\ Processed => \A h \in Hashes : Refers(NewOp, h) => h \in DOMAIN memory_objects'

\* C23: no step of a parse removes a MemoryObject or changes its object_id or
\* object_type; one is created exactly by the step that processes the first
\* operation referencing its hash, with the type decoded from that reference.
C23_RegistryGrows == [][C23_RegistryStep]_vars

\* aa11 was first seen as foo.IntArray and later referenced as bar.FloatArray
C23_Witness ==
  /\ Len(AllEntries) >= 2
  /\ AllEntries[1][1].objects = <<RefA>>
  /\ AllEntries[Len(AllEntries)][1].objects = <<RefA2>>
  /\ memory_objects["aa11"].object_type = "IntArray"

\* C24: while the sections are parsed no graph has a dependency entry, and
\* once parse_log is done the edges are those of the final produced and
\* consumed sets: h is on the edge from G to an earlier graph P exactly when
\* G consumed h and P produced it, at whatever point of their sections.
C24_ResolvedLast ==
  /\ pc # "done" =>
       \A n \in 1..Len(graphs \o task_graph) :
         DOMAIN (graphs \o task_graph)[n].dependencies = {}
  /\ pc = "done" =>
       \A i \in 1..Len(graphs), j \in 1..Len(graphs), h \in Hashes :
         (/\ graphs[j].graph_id \in DOMAIN graphs[i].dependencies
          /\ h \in Elems(graphs[i].dependencies[graphs[j].graph_id]))
         <=> (/\ j < i
              /\ h \in graphs[i].objects_consumed
              /\ h \in graphs[j].objects_produced)

\* the first graph produced aa11 with its last operation only, the second
\* consumed it with its first
C24_Witness ==
  /\ pc = "done"
  /\ Len(graphs) = 2
  /\ Len(graphs[1].operations) = 2
  /\ ~Refers(graphs[1].operations[1], "aa11")
  /\ graphs[1].operations[2].operation = "ALLOC"
  /\ Len(graphs[2].operations) = 1
  /\ Refers(graphs[2].operations[1], "aa11")
  /\ graphs[1].graph_id \in DOMAIN graphs[2].dependencies
  /\ graphs[2].dependencies[graphs[1].graph_id] = <<"aa11">>

\* the task rows of a graph in task_data
TaskRows(gid) ==
  {k \in DOMAIN task_data :
     task_data[k].TaskGraph = gid /\ task_data[k].Task[1] = "task"}

RECURSIVE SumRows(_)
SumRows(K) ==
  IF K = {} THEN 0
  ELSE LET k == CHOOSE k \in K : TRUE
       IN task_data[k].NumOperations + SumRows(K \ {k})

NamedLaunch(op) == op.operation = "LAUNCH" /\ op.task_name # ""

\* the bucket of operation n of graph g: the task of the most recent named
\* LAUNCH up to n, the setup bucket if there is none
BucketOf(g, n) ==
  IF \E m \in 1..n : NamedLaunch(g.operations[m])
  THEN g.operations[Last({m \in 1..n : NamedLaunch(g.operations[m])})].task_name
  ELSE SetupName(g.graph_id)

\* C25: in the summary of a parse, every operation of a graph is counted in
\* exactly one task row, that of the most recent named LAUNCH of its graph or
\* the setup row if there was none yet, and the NumOperations of the task rows
\* of a graph add up to the number of its operations.
C25_CurrentTaskFold ==
  pc = "summary" =>
    \A i \in 1..Len(graphs) :
      LET g == graphs[i]
          R == TaskRows(g.graph_id)
      IN /\ SumRows(R) = Len(g.operations)
         /\ \A n \in DOMAIN g.operations :
              Cardinality({k \in R : task_data[k].Task[2] = BucketOf(g, n)}) = 1
         /\ \A k \in R :
              task_data[k].NumOperations =
                Cardinality({n \in DOMAIN g.operations :
                               BucketOf(g, n) = task_data[k].Task[2]})

\* C26: in the summary of a parse, a graph without a LAUNCH that names a task
\* has one task row, named <graph_id>_main, that counts all its operations.
C26_DefaultMainTask ==
  pc = "summary" =>
    \A i \in 1..Len(graphs) :
      (\A n \in DOMAIN graphs[i].operations :
         ~NamedLaunch(graphs[i].operations[n])) =>
        LET R == TaskRows(graphs[i].graph_id) IN
        /\ Cardinality(R) = 1
        /\ \A k \in R :
             /\ task_data[k].Task[2] = MainName(graphs[i].graph_id)
             /\ task_data[k].NumOperations = Len(graphs[i].operations)

\* the operations referencing h that set its status, and the status one sets
Setting(h) == {k \in EntriesOn(h) : SetsStatus(AllEntries[k][1])}
StatusSet(op) ==
  CASE op.operation = "ALLOC" -> "Allocated"
    [] StartsWithTransfer(op.operation) -> "Transferred"
    [] op.operation = "DEALLOC" -> IF op.status # "" THEN op.status ELSE "Freed"
    [] op.operation = "ON_DEVICE_BUFFER" -> "On Device"

\* C27: in every state, so also after parse_log, current_status of h is
\* 'Unknown' if no ALLOC, TRANSFER_*, DEALLOC or ON_DEVICE_BUFFER referenced h
\* and otherwise the status set by the last of them in log order, whatever
\* came before it and whatever other operations came after it.
C27_LastStatusWins ==
  \A h \in DOMAIN memory_objects :
    memory_objects[h].current_status =
      IF Setting(h) = {} THEN "Unknown"
      ELSE StatusSet(AllEntries[Last(Setting(h))][1])

\* an ALLOC after a DEALLOC, followed by an ON_DEVICE: 'Allocated'
C27_Witness ==
  /\ pc = "done"
  /\ Len(AllEntries) = 3
  /\ AllEntries[1][1].operation = "DEALLOC"
  /\ AllEntries[2][1].operation = "ALLOC"
  /\ AllEntries[3][1].operation = "ON_DEVICE"
  /\ memory_objects["aa11"].current_status = "Allocated"

\* the graph with id gid among those stored and the one under construction,
\* and whether it has an operation at index i (counted from 0)
GraphOf(gid) == CHOOSE g \in Elems(graphs \o task_graph) : g.graph_id = gid
HasOperation(gid, i) ==
  /\ \E g \in Elems(graphs \o task_graph) : g.graph_id = gid
  /\ i + 1 \in DOMAIN GraphOf(gid).operations
OperationAt(gid, i) == GraphOf(gid).operations[i + 1]

Allocs(h) == {k \in EntriesOn(h) : AllEntries[k][1].operation = "ALLOC"}
Deallocs(h) == {k \in EntriesOn(h) : AllEntries[k][1].operation = "DEALLOC"}

\* C28: in every state, with the graph under construction counted among the
\* graphs: allocation_op_index of h is -1 exactly when allocated_in_graph is
\* empty, otherwise the two name the last ALLOC referencing h; every entry
\* (kind, g, i) of transfer_history names an operation of that kind
\* referencing h; deallocation_op_index is -1 exactly when no DEALLOC
\* referenced h.
C28_IndicesPointBack ==
  \A h \in DOMAIN memory_objects :
    LET mo == memory_objects[h] IN
    /\ mo.allocation_op_index = -1 <=> mo.allocated_in_graph = NoGraph
    /\ mo.allocated_in_graph # NoGraph =>
         /\ HasOperation(mo.allocated_in_graph, mo.allocation_op_index)
         /\ OperationAt(mo.allocated_in_graph, mo.allocation_op_index).operation
              = "ALLOC"
         /\ Refers(OperationAt(mo.allocated_in_graph, mo.allocation_op_index), h)
         /\ Allocs(h) # {}
         /\ AllEntries[Last(Allocs(h))][2] = mo.allocated_in_graph
         /\ AllEntries[Last(Allocs(h))][3] = mo.allocation_op_index
    /\ \A n \in DOMAIN mo.transfer_history :
         LET e == mo.transfer_history[n] IN
         /\ HasOperation(e[2], e[3])
         /\ OperationAt(e[2], e[3]).operation = e[1]
         /\ Refers(OperationAt(e[2], e[3]), h)
    /\ mo.deallocation_op_index = -1 <=> Deallocs(h) = {}

\* aa11 transferred in the first graph and allocated by operation 1 of the
\* second
C28_Witness ==
  /\ pc = "done"
  /\ Len(graphs) = 2
  /\ "aa11" \in DOMAIN memory_objects
  /\ memory_objects["aa11"].allocated_in_graph = graphs[2].graph_id
  /\ memory_objects["aa11"].allocation_op_index = 1
  /\ Len(memory_objects["aa11"].transfer_history) = 1
  /\ memory_objects["aa11"].transfer_history[1][2] = graphs[1].graph_id

\* C29: in every state, so also after parse_log, every hash in a graph's
\* produced or consumed set or in a dependency list is a key of
\* memory_objects, the graph is in used_in_graphs of every hash it produced or
\* consumed, and every key of a dependencies map is the id of a stored graph.
C29_ReferentialClosure ==
  \A n \in 1..Len(graphs \o task_graph) :
    LET g == (graphs \o task_graph)[n] IN
    /\ \A h \in g.objects_produced \cup g.objects_consumed :
         /\ h \in DOMAIN memory_objects
         /\ g.graph_id \in memory_objects[h].used_in_graphs
    /\ \A pid \in DOMAIN g.dependencies :
         /\ \E j \in 1..Len(graphs) : graphs[j].graph_id = pid
         /\ \A m \in DOMAIN g.dependencies[pid] :
              g.dependencies[pid][m] \in DOMAIN memory_objects

\* three graphs, the last one depending on both others
C29_Witness ==
  /\ pc = "done"
  /\ Len(graphs) = 3
  /\ DOMAIN graphs[3].dependencies = {graphs[1].graph_id, graphs[2].graph_id}
  /\ DOMAIN memory_objects = {"aa11", "bb22"}

C30_LaunchStep ==
  (Processed /\ NewOp.operation \in {"LAUNCH", "BARRIER"}) =>
    /\ NewOp.objects = <<>>
    /\ task_graph'[1].operations = Append(task_graph[1].operations, NewOp)
    /\ task_graph'[1].tasks =
         IF NewOp.task_name # "" THEN Append(task_graph[1].tasks, NewOp.task_name)
         ELSE task_graph[1].tasks
    /\ task_graph'[1].objects_produced = task_graph[1].objects_produced
    /\ task_graph'[1].objects_consumed = task_graph[1].objects_consumed
    /\ task_graph'[1].dependencies = task_graph[1].dependencies
    /\ memory_objects' = memory_objects
    /\ graphs' = graphs

\* C30: the step that processes a LAUNCH or a BARRIER appends an operation
\* without object references, and the task name of a LAUNCH that has one, and
\* leaves memory_objects and the produced and consumed sets and dependencies
\* of every graph as they were.
C30_LaunchNoObjects == [][C30_LaunchStep]_vars

\* a LAUNCH line with foo.IntArray@aa11 in its text was processed and aa11 is
\* not registered
C30_Witness ==
  /\ LineRead
  /\ LastLine.bc /\ LastLine.kind = "LAUNCH" /\ LastLine.refs = <<RefA>>
  /\ task_graph[1].tasks # <<>>
  /\ "aa11" \notin DOMAIN memory_objects

====
